---- MODULE Spec2Model ----
(***************************************************************************)
(* Model of native_extensions/src/lib.rs: five stateless text operations   *)
(* (extract_url_from_text, find_all_patterns, fast_string_contains,        *)
(* base64_encode_optimized, markdown_to_html).                             *)
(*                                                                         *)
(* A string is a sequence of one-character strings.  The regex crate's     *)
(* Regex::new / captures / replace_all are modelled by a parser for the    *)
(* pattern dialect the model uses (literals, ".", "\" escapes, capture     *)
(* groups, "|", "*", "?", and the lazy forms "*?" and "??") and by a       *)
(* backtracking matcher with the crate's leftmost-first semantics.         *)
(***************************************************************************)
EXTENDS Integers, Sequences, FiniteSets, TLC

VARIABLES
    pc,    \* "called" (arguments passed, body not run) or "returned"
    op,    \* the operation called
    args,  \* its arguments, a record
    ret,   \* the value returned
    segs,  \* SpecSpans: the segments the markdown input was composed of
    th     \* SpecCalls: the concurrent callers, thread -> call frame

vars == <<pc, op, args, ret, segs, th>>

(***************************************************************************)
(* Bounds of the model.                                                    *)
(***************************************************************************)
MaxTextLen == 2
MaxPatLen == 4
MaxPatterns == 3
MaxKeywords == 2
MaxBytes == 4
MaxMdLen == 8
MaxSegs == 4

\* All sequences over S of length at most n.
SeqsUpTo(S, n) == UNION {[1..k -> S] : k \in 0..n}

(***************************************************************************)
(* str::to_lowercase, on the letters the model uses.                       *)
(***************************************************************************)
lower_char(c) ==
    CASE c = "A" -> "a"
      [] c = "B" -> "b"
      [] OTHER -> c

to_lowercase(s) == [i \in 1..Len(s) |-> lower_char(s[i])]

IsUpper(c) == c \in {"A", "B"}

(***************************************************************************)
(* Regex::new: the pattern source parsed into a syntax tree, or an error.  *)
(* A parse result is [ok, ast, pos, ng]: pos is the next unread index and  *)
(* ng the number of capture groups opened so far (groups are numbered by   *)
(* their opening parenthesis).                                             *)
(***************************************************************************)
Empty == [t |-> "empty"]
Lit(c) == [t |-> "lit", c |-> c]
AnyChar == [t |-> "any"]
Cat(l, r) == [t |-> "cat", l |-> l, r |-> r]
Alt(l, r) == [t |-> "alt", l |-> l, r |-> r]
Rep(kind, greedy, sub) == [t |-> kind, greedy |-> greedy, sub |-> sub]
Grp(idx, sub) == [t |-> "grp", idx |-> idx, sub |-> sub]

ParseErr(msg) == [ok |-> FALSE, err |-> msg]
Parsed(ast, pos, ng) == [ok |-> TRUE, ast |-> ast, pos |-> pos, ng |-> ng]

At(p, i) == IF i >= 1 /\ i <= Len(p) THEN p[i] ELSE "EOF"

IsRepOp(c) == c \in {"*", "?"}

RECURSIVE ParseAlt(_, _, _)
RECURSIVE ParseConcat(_, _, _)
RECURSIVE ParseQuant(_, _, _, _)

\* A quantifier chain after an item: "*" or "?", each made lazy by a
\* following "?"; a further operator repeats the repetition.
ParseQuant(p, i, ast, ng) ==
    IF IsRepOp(At(p, i))
    THEN LET kind == IF At(p, i) = "*" THEN "star" ELSE "opt"
             lazy == At(p, i + 1) = "?"
         IN  ParseQuant(p, IF lazy THEN i + 2 ELSE i + 1,
                        Rep(kind, ~lazy, ast), ng)
    ELSE Parsed(ast, i, ng)

\* The end of group idx, whose inside parsed as r.
CloseGroup(p, r, idx) ==
    IF ~r.ok THEN r
    ELSE IF At(p, r.pos) # ")" THEN ParseErr("unclosed group")
    ELSE Parsed(Grp(idx, r.ast), r.pos + 1, r.ng)

ParseAtom(p, i, ng) ==
    LET c == At(p, i) IN
    CASE c = "(" -> CloseGroup(p, ParseAlt(p, i + 1, ng + 1), ng + 1)
      [] c = "\\" ->
           IF At(p, i + 1) = "EOF"
           THEN ParseErr("incomplete escape sequence")
           ELSE Parsed(Lit(At(p, i + 1)), i + 2, ng)
      [] c = "." -> Parsed(AnyChar, i + 1, ng)
      [] OTHER -> Parsed(Lit(c), i + 1, ng)

\* The quantifiers after the item parsed as a.
QuantAfter(p, a) == IF ~a.ok THEN a ELSE ParseQuant(p, a.pos, a.ast, a.ng)

ParseRepeat(p, i, ng) ==
    IF IsRepOp(At(p, i))
    THEN ParseErr("repetition operator missing expression")
    ELSE QuantAfter(p, ParseAtom(p, i, ng))

\* The item a followed by the rest r of its concatenation.
JoinCat(a, r) ==
    IF ~r.ok THEN r
    ELSE Parsed(IF r.ast = Empty THEN a.ast ELSE Cat(a.ast, r.ast), r.pos, r.ng)

ConcatAfter(p, a) ==
    IF ~a.ok THEN a ELSE JoinCat(a, ParseConcat(p, a.pos, a.ng))

ParseConcat(p, i, ng) ==
    IF At(p, i) \in {"EOF", "|", ")"}
    THEN Parsed(Empty, i, ng)
    ELSE ConcatAfter(p, ParseRepeat(p, i, ng))

\* The branch c followed by the other branches r of its alternation.
JoinAlt(c, r) ==
    IF ~r.ok THEN r ELSE Parsed(Alt(c.ast, r.ast), r.pos, r.ng)

AltAfter(p, c) ==
    IF ~c.ok THEN c
    ELSE IF At(p, c.pos) = "|" THEN JoinAlt(c, ParseAlt(p, c.pos + 1, c.ng))
    ELSE c

ParseAlt(p, i, ng) == AltAfter(p, ParseConcat(p, i, ng))

\* The whole pattern parsed as r: a ")" left over has no group to close.
Compiled(pattern, r) ==
    IF ~r.ok THEN r
    ELSE IF r.pos <= Len(pattern) THEN ParseErr("unopened group")
    ELSE [ok |-> TRUE, ast |-> r.ast, ng |-> r.ng]

Regex_new(pattern) == Compiled(pattern, ParseAlt(pattern, 1, 0))

(***************************************************************************)
(* The matcher.  Run(k, s, i, caps) matches the frames of the stack k (the *)
(* syntax trees still to match, and the group and loop bookkeeping) against*)
(* s from index i, preferring the first alternative, the longer greedy and *)
(* the shorter lazy repetition, and yields the first success.  A span      *)
(* <<from, to>> covers s[from] .. s[to - 1]; <<>> is a group that did not  *)
(* take part.                                                              *)
(***************************************************************************)
NoMatch == [ok |-> FALSE]

Min(S) == CHOOSE x \in S : \A y \in S : x <= y
Max(S) == CHOOSE x \in S : \A y \in S : x >= y

\* A node that matches exactly one character, and the characters it takes.
IsCharNode(n) == n.t \in {"lit", "any"}
CharOk(n, c) == IF n.t = "lit" THEN c = n.c ELSE c # "\n"

\* How many characters of s from index i on the character node n takes.
CharRun(n, s, i) ==
    LET stop == {j \in i..Len(s) : ~CharOk(n, s[j])} IN
    IF stop = {} THEN Len(s) + 1 - i ELSE Min(stop) - i

\* The first of two attempts that succeeds (the second is not made when
\* the first does).
Prefer(a, b) == IF a.ok THEN a ELSE b

RECURSIVE Run(_, _, _, _)

\* A repeated single character, the repetition ending at one of `ends`:
\* the nearest first when lazy, the farthest first when greedy.
RunCharStar(h, rest, s, caps, ends) ==
    IF ends = {} THEN NoMatch
    ELSE Run(rest, s, IF h.greedy THEN Max(ends) ELSE Min(ends), caps)

Run(k, s, i, caps) ==
    IF k = <<>> THEN [ok |-> TRUE, end |-> i, caps |-> caps]
    ELSE
    LET h == Head(k)
        rest == Tail(k)
    IN
    CASE h.t = "lit" ->
           IF i <= Len(s) /\ s[i] = h.c THEN Run(rest, s, i + 1, caps)
           ELSE NoMatch
      [] h.t = "any" ->
           IF i <= Len(s) /\ s[i] # "\n" THEN Run(rest, s, i + 1, caps)
           ELSE NoMatch
      [] h.t = "empty" -> Run(rest, s, i, caps)
      [] h.t = "cat" -> Run(<<h.l, h.r>> \o rest, s, i, caps)
      [] h.t = "alt" ->
           Prefer(Run(<<h.l>> \o rest, s, i, caps), Run(<<h.r>> \o rest, s, i, caps))
      [] h.t = "opt" ->
           IF h.greedy
           THEN Prefer(Run(<<h.sub>> \o rest, s, i, caps), Run(rest, s, i, caps))
           ELSE Prefer(Run(rest, s, i, caps), Run(<<h.sub>> \o rest, s, i, caps))
      [] h.t = "star" /\ IsCharNode(h.sub) ->
           RunCharStar(h, rest, s, caps,
                       {j \in i..(i + CharRun(h.sub, s, i)) : Run(rest, s, j, caps).ok})
      [] h.t = "star" ->
           LET again == <<h.sub, [t |-> "loop", node |-> h, from |-> i]>> IN
           IF h.greedy
           THEN Prefer(Run(again \o rest, s, i, caps), Run(rest, s, i, caps))
           ELSE Prefer(Run(rest, s, i, caps), Run(again \o rest, s, i, caps))
      [] h.t = "loop" ->
           \* an iteration that consumed nothing ends the repetition
           IF i = h.from THEN Run(rest, s, i, caps)
           ELSE Run(<<h.node>> \o rest, s, i, caps)
      [] h.t = "grp" ->
           Run(<<h.sub, [t |-> "close", idx |-> h.idx, from |-> i]>> \o rest,
               s, i, caps)
      [] h.t = "close" ->
           Run(rest, s, i, [caps EXCEPT ![h.idx] = <<h.from, i>>])

\* The match of re that starts exactly at index i, if any.
WholeMatch(r, i) ==
    IF r.ok THEN [ok |-> TRUE, caps |-> [r.caps EXCEPT ![0] = <<i, r.end>>]]
    ELSE NoMatch

MatchAt(re, s, i) ==
    WholeMatch(Run(<<re.ast>>, s, i, [g \in 0..re.ng |-> <<>>]), i)

\* Regex::captures_at: the leftmost match starting at index `start` or later.
LeftmostOf(re, s, starts) ==
    IF starts = {} THEN NoMatch ELSE MatchAt(re, s, Min(starts))

captures_at(re, s, start) ==
    LeftmostOf(re, s, {i \in start..(Len(s) + 1) : MatchAt(re, s, i).ok})

\* Regex::captures: the leftmost match in s.
captures(re, s) == captures_at(re, s, 1)

\* Captures::get(g) then Match::as_str: the text of group g.
HasGroup(m, g) == m.ok /\ g \in DOMAIN m.caps /\ m.caps[g] # <<>>
as_str(m, s, g) == SubSeq(s, m.caps[g][1], m.caps[g][2] - 1)

(***************************************************************************)
(* Results: PyResult<T> is Ok(value) or Err(PyValueError); Option<String>  *)
(* is Some(string) or None.                                                *)
(***************************************************************************)
Ok(v) == [ok |-> TRUE, val |-> v]
Some(v) == [some |-> TRUE, str |-> v]
None == [some |-> FALSE]

\* PyValueError::new_err(format!("Invalid regex pattern: {}", e))
ErrExtract(e) ==
    [ok |-> FALSE, exc |-> "PyValueError", msg |-> "Invalid regex pattern", e |-> e]

\* PyValueError::new_err(format!("Invalid regex pattern '{}': {}", pattern, e))
ErrFindAll(pattern, e) ==
    [ok |-> FALSE, exc |-> "PyValueError", msg |-> "Invalid regex pattern",
     pattern |-> pattern, e |-> e]

(***************************************************************************)
(* extract_url_from_text                                                   *)
(***************************************************************************)
\* Mutant: the whole match stands in for a missing first group.
first_group_or_whole(cap, s) ==
    IF HasGroup(cap, 1) THEN Some(as_str(cap, s, 1))
    ELSE IF HasGroup(cap, 0) THEN Some(as_str(cap, s, 0))
    ELSE None

\* .and_then(|cap| cap.get(1)).map(|m| m.as_str().to_string())
first_group(cap, s) ==
    IF cap.ok /\ HasGroup(cap, 1) THEN Some(as_str(cap, s, 1)) ELSE None

\* The body once the pattern is compiled to re (or failed to compile).
extract_with(re, text_lower) ==
    IF ~re.ok THEN ErrExtract(re.err)
    ELSE Ok(first_group(captures(re, text_lower), text_lower))

\* Mutant: the pattern is matched against the text as given.
extract_no_lowercase(text, pattern) == extract_with(Regex_new(pattern), text)

extract_url_from_text(text, pattern) ==
    extract_with(Regex_new(pattern), to_lowercase(text))

(***************************************************************************)
(* find_all_patterns: the loop over the patterns, from index i with the    *)
(* results pushed so far.                                                  *)
(***************************************************************************)
\* Mutant: the first capture group is pushed, not the whole match.
push_group1(results, pattern, cap, s) ==
    IF HasGroup(cap, 1)
    THEN Append(results, <<pattern, as_str(cap, s, 1)>>)
    ELSE results

\* if let Some(cap) = re.captures(..) { if let Some(m) = cap.get(0) { push } }
push_match(results, pattern, cap, s) ==
    IF cap.ok /\ HasGroup(cap, 0)
    THEN Append(results, <<pattern, as_str(cap, s, 0)>>)
    ELSE results

RECURSIVE find_all_loop(_, _, _, _)

\* Mutant: a pattern that does not compile is skipped.
find_all_body_skip(text_lower, patterns, i, results, re) ==
    find_all_loop(text_lower, patterns, i + 1,
        IF ~re.ok THEN results
        ELSE push_match(results, patterns[i], captures(re, text_lower), text_lower))

\* One iteration, the pattern compiled to re (or failed to compile).
find_all_body(text_lower, patterns, i, results, re) ==
    IF ~re.ok THEN ErrFindAll(patterns[i], re.err)
    ELSE find_all_loop(text_lower, patterns, i + 1,
             push_match(results, patterns[i], captures(re, text_lower), text_lower))

find_all_loop(text_lower, patterns, i, results) ==
    IF i > Len(patterns) THEN Ok(results)
    ELSE find_all_body(text_lower, patterns, i, results, Regex_new(patterns[i]))

find_all_patterns(text, patterns) ==
    find_all_loop(to_lowercase(text), patterns, 1, <<>>)

(***************************************************************************)
(* fast_string_contains                                                    *)
(***************************************************************************)
\* str::contains: needle occurs in hay as a contiguous substring.
contains(hay, needle) ==
    \E i \in 0..(Len(hay) - Len(needle)) :
        SubSeq(hay, i + 1, i + Len(needle)) = needle

fast_string_contains(text, keywords) ==
    LET text_lower == to_lowercase(text) IN
    \E keyword \in keywords : contains(text_lower, keyword)

(***************************************************************************)
(* base64_encode_optimized: base64::encode, the standard alphabet with "=" *)
(* padding.  Three bytes make four characters; a last group of one or two  *)
(* bytes is padded with zero bits and "=".                                 *)
(***************************************************************************)
STANDARD_ALPHABET == <<
    "A", "B", "C", "D", "E", "F", "G", "H", "I", "J", "K", "L", "M", "N", "O", "P",
    "Q", "R", "S", "T", "U", "V", "W", "X", "Y", "Z", "a", "b", "c", "d", "e", "f",
    "g", "h", "i", "j", "k", "l", "m", "n", "o", "p", "q", "r", "s", "t", "u", "v",
    "w", "x", "y", "z", "0", "1", "2", "3", "4", "5", "6", "7", "8", "9", "+", "/" >>

RECURSIVE encode_from(_, _)
encode_from(data, i) ==
    IF i > Len(data) THEN <<>>
    ELSE LET rem == Len(data) - i + 1
             b0 == data[i]
             b1 == IF rem >= 2 THEN data[i + 1] ELSE 0
             b2 == IF rem >= 3 THEN data[i + 2] ELSE 0
             n == b0 * 65536 + b1 * 256 + b2
         IN  << STANDARD_ALPHABET[((n \div 262144) % 64) + 1],
                STANDARD_ALPHABET[((n \div 4096) % 64) + 1],
                IF rem >= 2 THEN STANDARD_ALPHABET[((n \div 64) % 64) + 1] ELSE "=",
                IF rem >= 3 THEN STANDARD_ALPHABET[(n % 64) + 1] ELSE "=" >>
             \o encode_from(data, i + 3)

\* Mutant: the padding characters are left out.
encode_no_pad(data) == SelectSeq(encode_from(data, 1), LAMBDA c : c # "=")

base64_encode_optimized(data) == encode_from(data, 1)

(***************************************************************************)
(* Regex::replace_all.  The Matches iterator keeps last_end (where the     *)
(* next search starts) and last_match (the end of the previous match, 0    *)
(* for none): matches do not overlap, and an empty match right after the   *)
(* previous match is skipped.  A replacement "pre$1post" is the record     *)
(* [pre, post].                                                            *)
(***************************************************************************)
expand(rep, m, s) ==
    rep.pre \o (IF HasGroup(m, 1) THEN as_str(m, s, 1) ELSE <<>>) \o rep.post

RECURSIVE replace_from(_, _, _, _, _, _)

\* One step of the iteration, the search from last_end having found m.
replace_step(re, s, rep, last_match, copied, m) ==
    IF ~m.ok THEN SubSeq(s, copied, Len(s))
    ELSE LET st == m.caps[0][1]
             en == m.caps[0][2]
         IN  IF st = en /\ en = last_match
             THEN replace_from(re, s, rep, en + 1, last_match, copied)
             ELSE SubSeq(s, copied, st - 1) \o expand(rep, m, s)
                  \o replace_from(re, s, rep, IF st = en THEN en + 1 ELSE en, en, en)

\* copied: the index from which s has not been copied to the output yet.
replace_from(re, s, rep, last_end, last_match, copied) ==
    IF last_end > Len(s) + 1 THEN SubSeq(s, copied, Len(s))
    ELSE replace_step(re, s, rep, last_match, copied, captures_at(re, s, last_end))

replace_all(re, s, rep) == replace_from(re, s, rep, 1, 0, 1)

(***************************************************************************)
(* markdown_to_html                                                        *)
(***************************************************************************)
\* Mutant: the bold content matched greedily, r"\*\*(.*)\*\*".
bold_re_greedy ==
    Regex_new(<<"\\", "*", "\\", "*", "(", ".", "*", ")", "\\", "*", "\\", "*">>)

\* Regex::new(r"\*\*(.*?)\*\*").unwrap()
bold_re ==
    Regex_new(<<"\\", "*", "\\", "*", "(", ".", "*", "?", ")", "\\", "*", "\\", "*">>)

\* Regex::new(r"\*(.*?)\*").unwrap()
italic_re == Regex_new(<<"\\", "*", "(", ".", "*", "?", ")", "\\", "*">>)

\* "<strong>$1</strong>"
strong_rep ==
    [pre |-> <<"<", "s", "t", "r", "o", "n", "g", ">">>,
     post |-> <<"<", "/", "s", "t", "r", "o", "n", "g", ">">>]

\* "<em>$1</em>"
em_rep == [pre |-> <<"<", "e", "m", ">">>, post |-> <<"<", "/", "e", "m", ">">>]

\* Mutant: the italic pass is left out.
markdown_bold_only(text) == replace_all(bold_re, text, strong_rep)

markdown_to_html(text) ==
    LET text1 == replace_all(bold_re, text, strong_rep)
        text2 == replace_all(italic_re, text1, em_rep)
    IN  text2

(***************************************************************************)
(* The inputs the calls are made with.                                     *)
(***************************************************************************)
TextAlphabet == {"a", "A", "b"}
Texts == SeqsUpTo(TextAlphabet, MaxTextLen)

\* Pattern sources: every string over these characters, valid or not.
PatAlphabet == {"a", "A", "(", ")", "?", "|"}
Patterns == SeqsUpTo(PatAlphabet, MaxPatLen)

\* The patterns find_all_patterns is called with lists of: a, A, b?, (a)b
\* and the invalid "(".
ScanPatterns ==
    { <<"a">>, <<"A">>, <<"b", "?">>, <<"(", "a", ")", "b">>, <<"(">> }
PatternLists == SeqsUpTo(ScanPatterns, MaxPatterns)

\* Keywords: a, A, ab, Ab and the empty keyword.
KeywordPool == { <<"a">>, <<"A">>, <<"a", "b">>, <<"A", "b">>, <<>> }
Range(q) == {q[i] : i \in DOMAIN q}
KeywordSets == {Range(q) : q \in SeqsUpTo(KeywordPool, MaxKeywords)}

ByteSample == {0, 1, 33, 72, 127, 128, 254, 255}
ByteStrings == SeqsUpTo(ByteSample, MaxBytes)

MdAlphabet == {"*", "a", "\n"}
MdTexts == SeqsUpTo(MdAlphabet, MaxMdLen)

\* Segments a markdown input is composed of: a bold span **c**, an italic
\* span *c*, or plain text c (possibly empty).
Segments ==
    [k : {"bold", "italic"}, c : { <<"a">>, <<"a", " ", "b">> }]
    \cup [k : {"text"}, c : { <<" ">>, <<"x", "\n">>, <<>> }]
SegmentLists == SeqsUpTo(Segments, MaxSegs)

Source(seg) ==
    CASE seg.k = "bold" -> <<"*", "*">> \o seg.c \o <<"*", "*">>
      [] seg.k = "italic" -> <<"*">> \o seg.c \o <<"*">>
      [] OTHER -> seg.c

RECURSIVE Flatten(_)
Flatten(q) == IF q = <<>> THEN <<>> ELSE Head(q) \o Flatten(Tail(q))

SourceOf(sl) == Flatten([i \in 1..Len(sl) |-> Source(sl[i])])

NoCall == [op |-> "none"]

(***************************************************************************)
(* One call of one operation: Init passes the arguments, the action runs   *)
(* the body and returns.                                                   *)
(***************************************************************************)
InitCall(o, A) ==
    /\ pc = "called"
    /\ op = o
    /\ args \in A
    /\ ret = NoCall
    /\ segs = <<>>
    /\ th = <<>>

Return(o, v) ==
    /\ pc = "called"
    /\ op = o
    /\ ret' = v
    /\ pc' = "returned"
    /\ UNCHANGED <<op, args, segs, th>>

InitExtract ==
    InitCall("extract_url_from_text", [text : Texts, pattern : Patterns])
Call_extract_url_from_text ==
    Return("extract_url_from_text", extract_url_from_text(args.text, args.pattern))
SpecExtract == InitExtract /\ [][Call_extract_url_from_text]_vars

InitFindAll ==
    InitCall("find_all_patterns", [text : Texts, patterns : PatternLists])
Call_find_all_patterns ==
    Return("find_all_patterns", find_all_patterns(args.text, args.patterns))
SpecFindAll == InitFindAll /\ [][Call_find_all_patterns]_vars

\* Either of the two pattern-based operations.
InitPatterns == InitExtract \/ InitFindAll
NextPatterns == Call_extract_url_from_text \/ Call_find_all_patterns
SpecPatterns == InitPatterns /\ [][NextPatterns]_vars

InitContains ==
    InitCall("fast_string_contains", [text : Texts, keywords : KeywordSets])
Call_fast_string_contains ==
    Return("fast_string_contains", fast_string_contains(args.text, args.keywords))
SpecContains == InitContains /\ [][Call_fast_string_contains]_vars

InitBase64 == InitCall("base64_encode_optimized", [data : ByteStrings])
Call_base64_encode_optimized ==
    Return("base64_encode_optimized", base64_encode_optimized(args.data))
SpecBase64 == InitBase64 /\ [][Call_base64_encode_optimized]_vars

InitMarkdown == InitCall("markdown_to_html", [text : MdTexts])
Call_markdown_to_html ==
    Return("markdown_to_html", markdown_to_html(args.text))
SpecMarkdown == InitMarkdown /\ [][Call_markdown_to_html]_vars

\* markdown_to_html on inputs composed of segments.
InitSpans ==
    /\ segs \in SegmentLists
    /\ pc = "called"
    /\ op = "markdown_to_html"
    /\ args = [text |-> SourceOf(segs)]
    /\ ret = NoCall
    /\ th = <<>>
SpecSpans == InitSpans /\ [][Call_markdown_to_html]_vars

(***************************************************************************)
(* Concurrent callers.  Each thread calls the operations one after the     *)
(* other; the calls of different threads interleave.  find_all_patterns    *)
(* runs one loop iteration per step on the locals of its own frame         *)
(* (text_lower, results, the loop index i); the other operations run in    *)
(* one step.  The locals of a finished call are dead: the model leaves     *)
(* their last values in the frame, and the next call of find_all_patterns  *)
(* initialises its own.  after_failed_scan records that the thread's         *)
(* previous call was a find_all_patterns that failed after pushing a match.*)
(***************************************************************************)
Threads == {"t1", "t2"}

CallText == <<"A", "b">>
CallPatterns == { <<"a">>, <<"b", "?">>, <<"(">> }
CallPatternLists ==
    {<<p>> : p \in CallPatterns} \cup {<<p, q>> : p \in CallPatterns, q \in CallPatterns}
CallExtractPatterns == { <<"(", "a", ")">>, <<"(">> }

IdleFrame ==
    [pc |-> "idle", op |-> "none", args |-> <<>>, text_lower |-> <<>>,
     i |-> 0, results |-> <<>>, ret |-> NoCall, after_failed_scan |-> FALSE]

\* The call of f was a find_all_patterns that failed on an invalid pattern
\* after it had pushed a match.
FailedScan(f) ==
    /\ f.pc = "returned"
    /\ f.op = "find_all_patterns"
    /\ ~f.ret.ok
    /\ f.results # <<>>

CanCall(f) == f.pc \in {"idle", "returned"}

\* A call that runs in one step.
call_frame(f, o, a, v) ==
    [f EXCEPT !.pc = "returned", !.op = o, !.args = a, !.ret = v,
              !.after_failed_scan = FailedScan(f)]

\* Mutant: the results vector is not created anew.
begin_find_all_stale(f, a) ==
    [f EXCEPT !.pc = "loop", !.op = "find_all_patterns", !.args = a,
              !.text_lower = to_lowercase(a.text),
              !.i = 1,
              !.ret = NoCall,
              !.after_failed_scan = FailedScan(f)]

\* find_all_patterns, entry: text_lower and the empty results vector.
begin_find_all(f, a) ==
    [f EXCEPT !.pc = "loop", !.op = "find_all_patterns", !.args = a,
              !.text_lower = to_lowercase(a.text),
              !.results = <<>>,
              !.i = 1,
              !.ret = NoCall,
              !.after_failed_scan = FailedScan(f)]

\* find_all_patterns, one iteration: the pattern compiled to re (or failed).
step_with(f, pattern, re) ==
    IF ~re.ok
    THEN [f EXCEPT !.pc = "returned", !.ret = ErrFindAll(pattern, re.err)]
    ELSE [f EXCEPT !.i = f.i + 1,
                   !.results = push_match(f.results, pattern,
                                          captures(re, f.text_lower), f.text_lower)]

\* find_all_patterns, one iteration of the loop, or the return after it.
step_find_all(f) ==
    IF f.i > Len(f.args.patterns)
    THEN [f EXCEPT !.pc = "returned", !.ret = Ok(f.results)]
    ELSE step_with(f, f.args.patterns[f.i], Regex_new(f.args.patterns[f.i]))

InitCalls ==
    /\ th = [t \in Threads |-> IdleFrame]
    /\ pc = "none"
    /\ op = "none"
    /\ args = <<>>
    /\ ret = NoCall
    /\ segs = <<>>

Set(t, f) ==
    /\ th' = [th EXCEPT ![t] = f]
    /\ UNCHANGED <<pc, op, args, ret, segs>>

T_extract_url_from_text(t) ==
    /\ CanCall(th[t])
    /\ \E pattern \in CallExtractPatterns :
         Set(t, call_frame(th[t], "extract_url_from_text",
                           [text |-> CallText, pattern |-> pattern],
                           extract_url_from_text(CallText, pattern)))

T_find_all_patterns(t) ==
    /\ CanCall(th[t])
    /\ \E patterns \in CallPatternLists :
         Set(t, begin_find_all(th[t], [text |-> CallText, patterns |-> patterns]))

T_find_all_step(t) ==
    /\ th[t].pc = "loop"
    /\ Set(t, step_find_all(th[t]))

T_fast_string_contains(t) ==
    /\ CanCall(th[t])
    /\ \E keywords \in { {<<"a">>}, {<<"A">>} } :
         Set(t, call_frame(th[t], "fast_string_contains",
                           [text |-> CallText, keywords |-> keywords],
                           fast_string_contains(CallText, keywords)))

T_base64_encode_optimized(t) ==
    /\ CanCall(th[t])
    /\ \E data \in { <<72>> } :
         Set(t, call_frame(th[t], "base64_encode_optimized", [data |-> data],
                           base64_encode_optimized(data)))

T_markdown_to_html(t) ==
    /\ CanCall(th[t])
    /\ \E text \in { <<"*", "a", "*">> } :
         Set(t, call_frame(th[t], "markdown_to_html", [text |-> text],
                           markdown_to_html(text)))

NextCalls ==
    \E t \in Threads :
        \/ T_extract_url_from_text(t)
        \/ T_find_all_patterns(t)
        \/ T_find_all_step(t)
        \/ T_fast_string_contains(t)
        \/ T_base64_encode_optimized(t)
        \/ T_markdown_to_html(t)

SpecCalls == InitCalls /\ [][NextCalls]_vars

(***************************************************************************)
(* Properties.                                                             *)
(***************************************************************************)
Returned(o) == pc = "returned" /\ op = o

Count(c, s) == Cardinality({i \in 1..Len(s) : s[i] = c})

\* The asterisks of s are one run of one or two: an opening marker with no
\* closing marker after it.
LoneMarker(s) ==
    LET stars == {i \in 1..Len(s) : s[i] = "*"} IN
    /\ stars # {}
    /\ Cardinality(stars) <= 2
    /\ Max(stars) - Min(stars) = Cardinality(stars) - 1

\* C1: an opening "*" or "**" with no closing marker after it is left
\* verbatim: markdown_to_html returns such an input unchanged.
C1_UnmatchedLeftVerbatim ==
    Returned("markdown_to_html") /\ LoneMarker(args.text) => ret = args.text

\* C10: for an input without a newline, the output of markdown_to_html
\* holds at most one "*".
C10_AtMostOneAsterisk ==
    Returned("markdown_to_html") /\ Count("\n", args.text) = 0
        => Count("*", ret) <= 1

\* C10 witness: an input of three or more asterisks and no newline has
\* been converted, and one asterisk is left.
C10_Witness ==
    /\ Returned("markdown_to_html")
    /\ Count("\n", args.text) = 0
    /\ Count("*", args.text) >= 3
    /\ Count("*", ret) = 1

(***************************************************************************)
(* Inputs made of spans.                                                   *)
(***************************************************************************)
IsSpan(seg) == seg.k \in {"bold", "italic"}

\* Bold and italic spans with non-empty content free of asterisks and
\* newlines, separated by non-empty asterisk-free text.
WellFormed(sl) ==
    /\ \A i \in 1..Len(sl) :
         /\ sl[i].c # <<>>
         /\ Count("*", sl[i].c) = 0
         /\ IsSpan(sl[i]) => Count("\n", sl[i].c) = 0
    /\ \A i \in 1..(Len(sl) - 1) : ~(IsSpan(sl[i]) /\ IsSpan(sl[i + 1]))

Rendered(seg) ==
    CASE seg.k = "bold" -> strong_rep.pre \o seg.c \o strong_rep.post
      [] seg.k = "italic" -> em_rep.pre \o seg.c \o em_rep.post
      [] OTHER -> seg.c

RenderedOf(sl) == Flatten([i \in 1..Len(sl) |-> Rendered(sl[i])])

\* C7: on an input of bold spans **c** and italic spans *c* separated by
\* non-empty asterisk-free text, markdown_to_html returns the input with
\* each bold span replaced by <strong>c</strong> and each italic span by
\* <em>c</em>, each span on its own.
C7_SpansReplaced ==
    Returned("markdown_to_html") /\ WellFormed(segs) => ret = RenderedOf(segs)

\* C7 witness: "**c** text **c**" has been converted to two separate
\* strong elements.
C7_Witness ==
    /\ Returned("markdown_to_html")
    /\ WellFormed(segs)
    /\ Len(segs) = 3
    /\ segs[1].k = "bold"
    /\ segs[3].k = "bold"
    /\ ret = RenderedOf(segs)

(***************************************************************************)
(* A standard base64 decoder: groups of four characters, "=" padding only  *)
(* at the end of the last group.                                           *)
(***************************************************************************)
IsSymbol(c) == \E v \in 1..64 : STANDARD_ALPHABET[v] = c
Sextet(c) == (CHOOSE v \in 1..64 : STANDARD_ALPHABET[v] = c) - 1

DecodeQuad(q, last) ==
    LET pad == Count("=", q)
        sym(j) == IF q[j] = "=" THEN 0 ELSE Sextet(q[j])
        n == sym(1) * 262144 + sym(2) * 4096 + sym(3) * 64 + sym(4)
        bytes == <<n \div 65536, (n \div 256) % 256, n % 256>>
        wellPadded ==
            /\ \A j \in 1..4 : q[j] = "=" \/ IsSymbol(q[j])
            /\ pad <= 2
            /\ pad > 0 => last
            /\ \A j \in 1..(4 - pad) : q[j] # "="
    IN  IF wellPadded THEN [ok |-> TRUE, bytes |-> SubSeq(bytes, 1, 3 - pad)]
        ELSE [ok |-> FALSE]

RECURSIVE DecodeFrom(_, _)
DecodeFrom(s, i) ==
    IF i > Len(s) THEN [ok |-> TRUE, bytes |-> <<>>]
    ELSE IF i + 3 > Len(s) THEN [ok |-> FALSE]
    ELSE LET q == DecodeQuad(SubSeq(s, i, i + 3), i + 3 = Len(s))
             r == DecodeFrom(s, i + 4)
         IN  IF q.ok /\ r.ok THEN [ok |-> TRUE, bytes |-> q.bytes \o r.bytes]
             ELSE [ok |-> FALSE]

base64_decode(s) == DecodeFrom(s, 1)

\* C8: base64_encode_optimized round-trips with a standard decoder, for
\* every byte sequence; the empty sequence encodes to the empty string.
C8_RoundTrip ==
    Returned("base64_encode_optimized")
        => /\ base64_decode(ret) = [ok |-> TRUE, bytes |-> args.data]
           /\ args.data = <<>> => ret = <<>>

\* C8 witness: two bytes have been encoded to three symbols and one pad.
C8_Witness ==
    /\ Returned("base64_encode_optimized")
    /\ Len(args.data) = 2
    /\ Len(ret) = 4
    /\ Count("=", ret) = 1
    /\ ret[4] = "="

\* C6: fast_string_contains is a case-insensitive membership test: it
\* returns true iff some keyword occurs in the text when letter case is
\* ignored.
C6_CaseInsensitiveMembership ==
    Returned("fast_string_contains")
        => (ret <=> \E keyword \in args.keywords :
                        contains(to_lowercase(args.text), to_lowercase(keyword)))

(***************************************************************************)
(* The pattern-based operations.                                           *)
(***************************************************************************)
Valid(pattern) == Regex_new(pattern).ok

\* The leftmost match of a valid pattern in s.
FirstMatch(pattern, s) == captures(Regex_new(pattern), s)

NoUpper(s) == \A i \in 1..Len(s) : ~IsUpper(s[i])

\* C2 as stated: for a valid pattern with one capture group whose first
\* match in the text captures group 1, extract_url_from_text returns
\* Some(the lowercase of that captured substring).
C2_AsStated ==
    Returned("extract_url_from_text") /\ Valid(args.pattern)
        /\ Regex_new(args.pattern).ng = 1
        /\ HasGroup(FirstMatch(args.pattern, args.text), 1)
        => ret = Ok(Some(to_lowercase(
                     as_str(FirstMatch(args.pattern, args.text), args.text, 1))))

\* C2 amended: for a valid pattern with one capture group whose first match
\* in the lowercased text captures group 1, extract_url_from_text returns
\* Some(that captured substring of the lowercased text), which holds no
\* uppercase character.
C2_Amended ==
    Returned("extract_url_from_text") /\ Valid(args.pattern)
        /\ Regex_new(args.pattern).ng = 1
        /\ HasGroup(FirstMatch(args.pattern, to_lowercase(args.text)), 1)
        => /\ ret = Ok(Some(as_str(FirstMatch(args.pattern, to_lowercase(args.text)),
                                   to_lowercase(args.text), 1)))
           /\ NoUpper(ret.val.str)

\* C2 witness: a text with an uppercase letter, a pattern with one group
\* that matched it, and the lowercase capture returned.
C2_Witness ==
    /\ Returned("extract_url_from_text")
    /\ Valid(args.pattern)
    /\ Regex_new(args.pattern).ng = 1
    /\ ~NoUpper(args.text)
    /\ ret.ok
    /\ ret.val.some
    /\ ret.val.str # <<>>

\* C3: for a pattern that compiles, extract_url_from_text returns Ok: None
\* when the pattern has no match in the lowercased text, and None as well
\* when it matches but has no first capture group.
C3_AbsenceNotError ==
    Returned("extract_url_from_text") /\ Valid(args.pattern)
        => /\ ret.ok
           /\ ~FirstMatch(args.pattern, to_lowercase(args.text)).ok => ret.val = None
           /\ Regex_new(args.pattern).ng = 0 => ret.val = None

\* C3 witness: a pattern without a capture group has matched a non-empty
\* part of the text, and None was returned.
C3_Witness ==
    /\ Returned("extract_url_from_text")
    /\ Valid(args.pattern)
    /\ Regex_new(args.pattern).ng = 0
    /\ FirstMatch(args.pattern, to_lowercase(args.text)).ok
    /\ as_str(FirstMatch(args.pattern, to_lowercase(args.text)),
              to_lowercase(args.text), 0) # <<>>
    /\ ret = Ok(None)

IsInvalidPatternError(r) ==
    /\ ~r.ok
    /\ r.exc = "PyValueError"
    /\ r.msg = "Invalid regex pattern"
    /\ "val" \notin DOMAIN r

\* C4: with an invalid pattern extract_url_from_text fails with the
\* invalid-pattern error, and find_all_patterns fails with it whenever any
\* pattern of its list is invalid, at whatever index, and returns no
\* partial results.
C4_InvalidPatternFails ==
    /\ Returned("extract_url_from_text") /\ ~Valid(args.pattern)
           => IsInvalidPatternError(ret)
    /\ Returned("find_all_patterns")
           /\ (\E i \in 1..Len(args.patterns) : ~Valid(args.patterns[i]))
           => IsInvalidPatternError(ret)

\* C4 witness: find_all_patterns has failed on a list whose first pattern
\* is valid and matches part of the text and whose last pattern is invalid.
C4_Witness ==
    /\ Returned("find_all_patterns")
    /\ Len(args.patterns) >= 2
    /\ Valid(args.patterns[1])
    /\ FirstMatch(args.patterns[1], to_lowercase(args.text)).ok
    /\ as_str(FirstMatch(args.patterns[1], to_lowercase(args.text)),
              to_lowercase(args.text), 0) # <<>>
    /\ ~Valid(args.patterns[Len(args.patterns)])
    /\ IsInvalidPatternError(ret)

\* The positions of the list whose pattern matches the lowercased text, and
\* the k-th of them.
MatchingPositions(text, patterns) ==
    {i \in 1..Len(patterns) : FirstMatch(patterns[i], to_lowercase(text)).ok}
Nth(S, k) == CHOOSE i \in S : Cardinality({j \in S : j <= i}) = k

\* C5: for a list of valid patterns the output of find_all_patterns is the
\* list restricted to the positions whose pattern matches the lowercased
\* text, in input order, duplicates kept: each such position gives one pair
\* (pattern, first whole match in the lowercased text), the others nothing.
C5_OutputIsMatchingSublist ==
    Returned("find_all_patterns")
        /\ (\A i \in 1..Len(args.patterns) : Valid(args.patterns[i]))
        => /\ ret.ok
           /\ Len(ret.val) = Cardinality(MatchingPositions(args.text, args.patterns))
           /\ \A k \in 1..Len(ret.val) :
                LET i == Nth(MatchingPositions(args.text, args.patterns), k) IN
                ret.val[k] = <<args.patterns[i],
                               as_str(FirstMatch(args.patterns[i], to_lowercase(args.text)),
                                      to_lowercase(args.text), 0)>>

\* C5 witness: a list with the same pattern at two positions, matching a
\* non-empty part of the text, and a non-matching pattern between them has
\* been scanned, giving two pairs.
C5_Witness ==
    /\ Returned("find_all_patterns")
    /\ Len(args.patterns) = 3
    /\ \A i \in 1..3 : Valid(args.patterns[i])
    /\ args.patterns[1] = args.patterns[3]
    /\ MatchingPositions(args.text, args.patterns) = {1, 3}
    /\ ret.ok
    /\ Len(ret.val) = 2
    /\ ret.val[1][2] # <<>>

(***************************************************************************)
(* Concurrent callers.                                                     *)
(***************************************************************************)
\* The result of a call made on its own.
Alone(o, a) ==
    CASE o = "extract_url_from_text" -> extract_url_from_text(a.text, a.pattern)
      [] o = "find_all_patterns" -> find_all_patterns(a.text, a.patterns)
      [] o = "fast_string_contains" -> fast_string_contains(a.text, a.keywords)
      [] o = "base64_encode_optimized" -> base64_encode_optimized(a.data)
      [] o = "markdown_to_html" -> markdown_to_html(a.text)

\* C9: in any interleaving of calls, each call returns what its own
\* arguments determine, whatever calls were made before it or run beside
\* it, and whether or not they failed.
C9_ResultFromOwnArguments ==
    \A t \in Threads :
        th[t].pc = "returned" => th[t].ret = Alone(th[t].op, th[t].args)

\* C9 witness: a thread whose previous call was a find_all_patterns that
\* pushed a match and then failed on an invalid pattern has returned
\* matches from a new find_all_patterns, while another thread is in the
\* middle of its own find_all_patterns loop.
C9_Witness ==
    \E t \in Threads, u \in Threads :
        /\ t # u
        /\ th[t].pc = "returned"
        /\ th[t].after_failed_scan
        /\ th[t].op = "find_all_patterns"
        /\ th[t].ret.ok
        /\ th[t].ret.val # <<>>
        /\ th[u].pc = "loop"
        /\ th[u].results # <<>>

====
